---- MODULE Spec2Model ----
(***************************************************************************)
(* A model of yobtk::ecs::Model<N, Ts...> (src/yobecs/model.hpp) together   *)
(* with AccessMatrix<N, M>, Component<T, E> and System<S, E, M>.            *)
(*                                                                         *)
(* Entities are AccessMatrix indexes.  An index is modelled by the number   *)
(* (b - 1) * N + k of the k-th cell of the b-th block of data_; component   *)
(* types are modelled by their typeId_ (0 .. M - 1); a signature (a         *)
(* std::bitset<M>) is modelled by the set of the type ids whose bit is set, *)
(* so that (s & sSys) == sSys reads (s \cap sSys) = sSys.  Offsets into the *)
(* component vectors are 0-based as in the code; the TLA+ sequences that    *)
(* hold the vectors are 1-based, so offset a is element a + 1.              *)
(***************************************************************************)
EXTENDS Integers, Sequences, FiniteSets, TLC

\* Template parameter N of Model / AccessMatrix: the number of cells per block.
N == 2
\* sizeof...(Ts): the number of declared component types.
M == 2
\* AccessMatrix::maxAccessor_, the "absent" marker (the largest std::size_t;
\* here the largest value of the model's integers).
maxAccessor_ == 2147483647

\* Bounds of the model.
MaxSystems == 2     \* createSystem is not called with this many systems registered
MaxStored == 3      \* StoreSpec: createEntity is not called with this many entities
                    \* spawned, nor insert with this many component values stored
MaxProcessed == 1   \* ProcessSpec: createEntity is not called with this many
                    \* entities spawned

Types == 0 .. (M - 1)
Values == {"p1", "p2"}          \* component values handed to insert / written
DefaultValue == "p1"            \* stands for T{}
Signatures == SUBSET Types
\* The values of SystemHandle.  A SystemHandle is the address make_unique
\* returned for the System, and the program uses of an address only that it
\* differs from the addresses of the other registered systems (the key of
\* systems_) and where it stands among them (the order of systems_).  A number
\* of SystemHandles names a System from its createSystem to its removeSystem,
\* and says nothing of where the System is: the place of the System among the
\* registered ones is kept apart, in systemOrder, so that a new System may be
\* allocated below, between or above the registered ones whatever was
\* allocated before.  Once its System is removed a number is free to name a
\* later System, allocated at the same address or at another.
SystemHandles == 1 .. MaxSystems
NoEntity == -1
NoSystem == 0

VARIABLES
    accessMatrix_,     \* [data_ : Seq(block), available_ : Seq(Index)]
    spawnedEntities_,  \* std::set<Entity>
    components_,       \* typeId -> [data_ : Seq(Values), owners_ : Seq(Entity)]
    systems_,          \* std::map<SystemHandle, SystemPtr_>: handle -> System
    systemOrder,       \* the keys of systems_ in the order of the map, that
                       \* of the addresses of the Systems
    lastOp,            \* the last public operation that returned, with its
                       \* arguments and results (history)
    processing,        \* the call of process() in progress, if any: the handle
                       \* it of the system whose function is running (the
                       \* iterator of the range-for) and, as history, the
                       \* handles of the systems visited so far and still
                       \* registered, and whether the functions have called
                       \* neither createSystem nor removeSystem
    scenario           \* the caller: its position in the end-to-end scenario
                       \* and the handles it holds (ScenarioSpec), and the set
                       \* made of the entities createEntity() ever returned
                       \* to it (AllocSpec)

vars == <<accessMatrix_, spawnedEntities_, components_, systems_, systemOrder,
          lastOp, processing, scenario>>

----------------------------------------------------------------------------
(* Sequence helpers (std::vector / std::deque primitives). *)

Back(s) == s[Len(s)]
PopBack(s) == SubSeq(s, 1, Len(s) - 1)
PushBack(s, x) == Append(s, x)
PushFront(s, x) == <<x>> \o s
Range(s) == {s[i] : i \in 1 .. Len(s)}

----------------------------------------------------------------------------
(* AccessMatrix<N, M>  (src/yobecs/accessMatrix.hpp) *)

defaultAccessors_ == [p \in Types |-> maxAccessor_]

\* The block and the cell an Index points into.
BlockOf(i) == (i \div N) + 1
CellOf(i) == i % N

AM_get(am, i, p) == am.data_[BlockOf(i)][CellOf(i)][p]

AM_has(am, i, p) == AM_get(am, i, p) # maxAccessor_

AM_set(am, i, p, a) ==
    [am EXCEPT !.data_[BlockOf(i)][CellOf(i)][p] = a]

AM_reset(am, i, p) == AM_set(am, i, p, maxAccessor_)

\* push_front of the cells of the new block, first cell first.
RECURSIVE PushFrontCells(_, _, _)
PushFrontCells(avail, base, k) ==
    IF k = N THEN avail
    ELSE PushFrontCells(PushFront(avail, base + k), base, k + 1)

\* AM_expand_ without last->fill(defaultAccessors_): the cells keep the zeros
\* of make_unique<Block_>() (the variant C9 is checked against).
AM_expand_noFill(am) ==
    LET last == [k \in 0 .. (N - 1) |-> [p \in Types |-> 0]]
        base == Len(am.data_) * N
    IN  [data_ |-> Append(am.data_, last),
         available_ |-> PushFrontCells(am.available_, base, 0)]

AM_expand_(am) ==
    LET last == [k \in 0 .. (N - 1) |-> defaultAccessors_]
        base == Len(am.data_) * N
    IN  [data_ |-> Append(am.data_, last),
         available_ |-> PushFrontCells(am.available_, base, 0)]

\* AM_make without available_.pop_back() (the variant C17 is checked against).
AM_make_noPop(am) ==
    LET am1 == IF am.available_ = <<>> THEN AM_expand_(am) ELSE am
    IN  [am |-> am1, i |-> Back(am1.available_)]

\* make(): the matrix after the call and the Index returned.
AM_make(am) ==
    LET am1 == IF am.available_ = <<>> THEN AM_expand_(am) ELSE am
    IN  [am |-> [am1 EXCEPT !.available_ = PopBack(am1.available_)],
         i |-> Back(am1.available_)]

\* AM_free with push_front instead of push_back (the variant C19 is checked
\* against).
AM_free_pushFront(am, i) ==
    [data_ |-> [am.data_ EXCEPT ![BlockOf(i)][CellOf(i)] = defaultAccessors_],
     available_ |-> PushFront(am.available_, i)]

AM_free(am, i) ==
    [data_ |-> [am.data_ EXCEPT ![BlockOf(i)][CellOf(i)] = defaultAccessors_],
     available_ |-> PushBack(am.available_, i)]

----------------------------------------------------------------------------
(* Component<T, E>  (src/yobecs/component.hpp) *)

\* Component_insert storing T{} instead of val (the variant C7 is checked
\* against).
Component_insert_noVal(c, e, val) ==
    [c |-> [data_ |-> PushBack(c.data_, DefaultValue),
            owners_ |-> PushBack(c.owners_, e)],
     a |-> Len(c.data_)]

\* insert(e, val): the component after the call and the offset returned.
Component_insert(c, e, val) ==
    [c |-> [data_ |-> PushBack(c.data_, val), owners_ |-> PushBack(c.owners_, e)],
     a |-> Len(c.data_)]

\* Component_remove without data_[a] = data_.back() (the variant C6 is checked
\* against).
Component_remove_noDataMove(c, a) ==
    LET owners1 == [c.owners_ EXCEPT ![a + 1] = Back(c.owners_)]
    IN  [c |-> [data_ |-> PopBack(c.data_), owners_ |-> PopBack(owners1)],
         e |-> owners1[a + 1]]

\* remove(a): the component after the call and the owner returned.
Component_remove(c, a) ==
    LET owners1 == [c.owners_ EXCEPT ![a + 1] = Back(c.owners_)]
        e == owners1[a + 1]
        data1 == [c.data_ EXCEPT ![a + 1] = Back(c.data_)]
    IN  [c |-> [data_ |-> PopBack(data1), owners_ |-> PopBack(owners1)],
         e |-> e]

Component_access(c, a) == c.data_[a + 1]

----------------------------------------------------------------------------
(* System<S, E, M>  (src/yobecs/system.hpp) *)

System_new(signature) == [signature_ |-> signature, entities_ |-> {}]

System_insert(sys, e) == [sys EXCEPT !.entities_ = @ \cup {e}]

System_remove(sys, e) == [sys EXCEPT !.entities_ = @ \ {e}]

----------------------------------------------------------------------------
(* Model<N, Ts...>  (src/yobecs/model.hpp).  A model value m is the record   *)
(* of the four members; every operation maps a model value to the next one.  *)

Cur == [accessMatrix_ |-> accessMatrix_,
        spawnedEntities_ |-> spawnedEntities_,
        components_ |-> components_,
        systems_ |-> systems_,
        systemOrder |-> systemOrder]

getAccess_(m, e, t) == AM_get(m.accessMatrix_, e, t)

hasAccess_(m, e, t) == AM_has(m.accessMatrix_, e, t)

resetAccess_(m, e, t) ==
    [m EXCEPT !.accessMatrix_ = AM_reset(m.accessMatrix_, e, t)]

\* computeSignature_<Us...>(): the bits of the types Us.
computeSignature_Us(Us) == UNION {{t} : t \in Us}

\* computeSignature_(Entity): bit t is set iff the entity has access t.
computeSignature_(m, e) == {t \in Types : hasAccess_(m, e, t)}

insertInSystems_(m, e, s) ==
    [m EXCEPT !.systems_ =
        [h \in DOMAIN m.systems_ |->
            LET sSys == m.systems_[h].signature_
            IN  IF (s \cap sSys) = sSys
                THEN System_insert(m.systems_[h], e)
                ELSE m.systems_[h]]]

removeFromSystems_(m, e, s) ==
    [m EXCEPT !.systems_ =
        [h \in DOMAIN m.systems_ |->
            LET sSys == m.systems_[h].signature_
            IN  IF (s \cap sSys) = sSys
                THEN System_remove(m.systems_[h], e)
                ELSE m.systems_[h]]]

\* Model_createEntity without insertInSystems_(e, Signature_()) (the variant
\* C13 is checked against).
Model_createEntity_noRegister(m) ==
    LET r == AM_make(m.accessMatrix_)
    IN  [m |-> [m EXCEPT !.accessMatrix_ = r.am,
                         !.spawnedEntities_ = @ \cup {r.i}],
         e |-> r.i]

\* createEntity(): the model after the call and the entity returned.
Model_createEntity(m) ==
    LET r == AM_make(m.accessMatrix_)
        e == r.i
        m1 == [m EXCEPT !.accessMatrix_ = r.am,
                        !.spawnedEntities_ = @ \cup {e}]
    IN  [m |-> insertInSystems_(m1, e, {}), e |-> e]

\* Model_insert registering e under the signature of T alone instead of
\* computeSignature_(e) (the variant C12 is checked against).
Model_insert_onlyT(m, e, t, val) ==
    LET r == Component_insert(m.components_[t], e, val)
        m1 == [m EXCEPT !.components_[t] = r.c,
                        !.accessMatrix_ = AM_set(m.accessMatrix_, e, t, r.a)]
    IN  insertInSystems_(m1, e, computeSignature_Us({t}))

\* Model_insert doing nothing on an entity that already owns T (the variant
\* C20 is checked against).
Model_insert_checked(m, e, t, val) ==
    IF hasAccess_(m, e, t) THEN m
    ELSE LET r == Component_insert(m.components_[t], e, val)
             m1 == [m EXCEPT !.components_[t] = r.c,
                             !.accessMatrix_ = AM_set(m.accessMatrix_, e, t, r.a)]
         IN  insertInSystems_(m1, e, computeSignature_(m1, e))

Model_insert(m, e, t, val) ==
    LET r == Component_insert(m.components_[t], e, val)
        m1 == [m EXCEPT !.components_[t] = r.c,
                        !.accessMatrix_ = AM_set(m.accessMatrix_, e, t, r.a)]
    IN  insertInSystems_(m1, e, computeSignature_(m1, e))

\* Model_remove without the patch of the relocated entity's accessor (the
\* variant C5 is checked against).
Model_remove_noPatch(m, e, t) ==
    LET a == getAccess_(m, e, t)
        r == Component_remove(m.components_[t], a)
        m1 == resetAccess_([m EXCEPT !.components_[t] = r.c], e, t)
    IN  removeFromSystems_(m1, e, computeSignature_Us({t}))

\* Model_remove without resetAccess_<T>(e) (the variant C8 is checked against).
Model_remove_noReset(m, e, t) ==
    LET a == getAccess_(m, e, t)
        r == Component_remove(m.components_[t], a)
        repE == r.e
        m1 == [m EXCEPT !.components_[t] = r.c]
        m2 == IF repE # e
              THEN [m1 EXCEPT !.accessMatrix_ = AM_set(m1.accessMatrix_, repE, t, a)]
              ELSE m1
    IN  removeFromSystems_(m2, e, computeSignature_Us({t}))

Model_remove(m, e, t) ==
    LET a == getAccess_(m, e, t)
        r == Component_remove(m.components_[t], a)
        repE == r.e
        m1 == resetAccess_([m EXCEPT !.components_[t] = r.c], e, t)
        m2 == IF repE # e
              THEN [m1 EXCEPT !.accessMatrix_ = AM_set(m1.accessMatrix_, repE, t, a)]
              ELSE m1
    IN  removeFromSystems_(m2, e, computeSignature_Us({t}))

Model_access(m, e, t) == Component_access(m.components_[t], getAccess_(m, e, t))

checkedRemove_(m, e, t) ==
    IF hasAccess_(m, e, t) THEN Model_remove(m, e, t) ELSE m

\* (checkedRemove_<Ts>(e), ...): the types in declaration order, from type t on.
RECURSIVE checkedRemoveAll_(_, _, _)
checkedRemoveAll_(m, e, t) ==
    IF t = M THEN m
    ELSE checkedRemoveAll_(checkedRemove_(m, e, t), e, t + 1)

\* Model_removeEntity without (checkedRemove_<Ts>(e), ...) (the variant C10 is
\* checked against).
Model_removeEntity_noComponents(m, e) ==
    LET m2 == [m EXCEPT !.accessMatrix_ = AM_free(m.accessMatrix_, e),
                        !.spawnedEntities_ = @ \ {e}]
    IN  removeFromSystems_(m2, e, {})

\* Model_removeEntity removing the component of the first declared type only
\* (the variant C18 is checked against).
Model_removeEntity_firstTypeOnly(m, e) ==
    LET m1 == checkedRemove_(m, e, 0)
        m2 == [m1 EXCEPT !.accessMatrix_ = AM_free(m1.accessMatrix_, e),
                         !.spawnedEntities_ = @ \ {e}]
    IN  removeFromSystems_(m2, e, {})

Model_removeEntity(m, e) ==
    LET m1 == checkedRemoveAll_(m, e, 0)
        m2 == [m1 EXCEPT !.accessMatrix_ = AM_free(m1.accessMatrix_, e),
                         !.spawnedEntities_ = @ \ {e}]
    IN  removeFromSystems_(m2, e, {})

\* The keys of a std::map as the sequence the map iterates over: the key h
\* put at the place pos, the key h taken out, and the place of the key h.
InsertAt(keys, pos, h) ==
    SubSeq(keys, 1, pos - 1) \o <<h>> \o SubSeq(keys, pos, Len(keys))
Without(keys, h) == SelectSeq(keys, LAMBDA k : k # h)
PlaceOf(keys, h) == CHOOSE i \in 1 .. Len(keys) : keys[i] = h

\* Model_createSystem without the scan of spawnedEntities_ (the variant C4 is
\* checked against).
Model_createSystem_noSeed(m, hSys, pos, Us) ==
    [m EXCEPT !.systems_ =
        [h \in DOMAIN m.systems_ \cup {hSys} |->
            IF h = hSys THEN System_new(computeSignature_Us(Us))
            ELSE m.systems_[h]],
              !.systemOrder = InsertAt(@, pos, hSys)]

\* createSystem<Us...>(f), the new System being allocated at the address
\* hSys, that stands at the place pos among those of the registered systems
\* (systems_[hSys] puts the key where the order of the map has it).
Model_createSystem(m, hSys, pos, Us) ==
    LET tmpSys == System_new(computeSignature_Us(Us))
        sSys == tmpSys.signature_
        seeded == {e \in m.spawnedEntities_ :
                      (computeSignature_(m, e) \cap sSys) = sSys}
    IN  [m EXCEPT !.systems_ =
            [h \in DOMAIN m.systems_ \cup {hSys} |->
                IF h = hSys THEN [tmpSys EXCEPT !.entities_ = seeded]
                ELSE m.systems_[h]],
                  !.systemOrder = InsertAt(@, pos, hSys)]

\* Model_removeSystem with systems_.clear() for systems_.erase(hSys) (the
\* variant C14 is checked against).
Model_removeSystem_clearAll(m, hSys) ==
    [m EXCEPT !.systems_ = <<>>, !.systemOrder = <<>>]

Model_removeSystem(m, hSys) ==
    [m EXCEPT !.systems_ = [h \in DOMAIN m.systems_ \ {hSys} |-> m.systems_[h]],
              !.systemOrder = Without(@, hSys)]

\* System::process(m): the working set handed to f_.
System_process(sys) == sys.entities_

\* process() is the range-for over systems_, a std::map: the systems are
\* visited in the order of the map.  NoSystem stands for systems_.end().
\* systems_.begin():
Model_process_begin(m) ==
    IF m.systemOrder = <<>> THEN NoSystem ELSE m.systemOrder[1]

\* ++it leaving the loop after the first system (the variant C11 is checked
\* against).
Model_process_next_break(m, it) == NoSystem

\* ++it: the registered system that follows it.
Model_process_next(m, it) ==
    LET i == PlaceOf(m.systemOrder, it)
    IN  IF i = Len(m.systemOrder) THEN NoSystem ELSE m.systemOrder[i + 1]

----------------------------------------------------------------------------
(* The state machine: one action per public operation.  The library has no   *)
(* thread of its own, so every operation but process() is one step of the    *)
(* caller.  process() hands control to the processing functions: it is one   *)
(* step per function called, and between the call of a function and its      *)
(* return the function may call the operations of the Model it was given.    *)

\* lastOp: the operation op, the entity e, type t and value v it was given or
\* returned, the system handle h, the signature sig (createSystem: the
\* signature asked for; removeEntity: the signature the entity had), the
\* offset a (insert: the offset returned; remove: the offset vacated) and,
\* for createEntity, the removeEntity that came right before it, if any.  The
\* call of a processing function by process() is the operation "call", with
\* the handle h of the system and the working set entities handed to the
\* function; the return of process() as the operation "process", with the
\* handles visited of the systems whose functions were called and that are
\* still registered.
NoOp == <<"none", NoEntity, {}>>
Summary(l) == IF l.op = "removeEntity" THEN <<l.op, l.e, l.sig>> ELSE NoOp

Op(op, e, t, v, h, sig, a, entities, after) ==
    [op |-> op, e |-> e, t |-> t, v |-> v, h |-> h, sig |-> sig, a |-> a,
     entities |-> entities, visited |-> {}, after |-> after]

SetModel(m) ==
    /\ accessMatrix_' = m.accessMatrix_
    /\ spawnedEntities_' = m.spawnedEntities_
    /\ components_' = m.components_
    /\ systems_' = m.systems_
    /\ systemOrder' = m.systemOrder

NotProcessing == [it |-> NoSystem, visited |-> {}, stable |-> TRUE]

Init ==
    /\ accessMatrix_ = [data_ |-> <<>>, available_ |-> <<>>]
    /\ spawnedEntities_ = {}
    /\ components_ = [t \in Types |-> [data_ |-> <<>>, owners_ |-> <<>>]]
    /\ systems_ = <<>>
    /\ systemOrder = <<>>
    /\ lastOp = Op("init", NoEntity, 0, DefaultValue, NoSystem, {}, 0, {}, NoOp)
    /\ processing = NotProcessing
    /\ scenario = [pc |-> 0, es |-> <<>>, t |-> 0, h |-> NoSystem, made |-> {}]

Owns(e, t) == hasAccess_(Cur, e, t)

\* The number of component values stored, over the types from t on.
RECURSIVE StoredFrom(_, _)
StoredFrom(m, t) ==
    IF t = M THEN 0 ELSE Len(m.components_[t].data_) + StoredFrom(m, t + 1)

DoCreateEntity ==
    LET r == Model_createEntity(Cur)
    IN  /\ SetModel(r.m)
        /\ lastOp' = Op("createEntity", r.e, 0, DefaultValue, NoSystem, {}, 0,
                        {}, Summary(lastOp))

DoRemoveEntity(e) ==
    /\ SetModel(Model_removeEntity(Cur, e))
    /\ lastOp' = Op("removeEntity", e, 0, DefaultValue, NoSystem,
                    computeSignature_(Cur, e), 0, {}, NoOp)

DoInsert(e, t, v) ==
    /\ SetModel(Model_insert(Cur, e, t, v))
    /\ lastOp' = Op("insert", e, t, v, NoSystem, {},
                    Len(components_[t].data_), {}, NoOp)

DoRemove(e, t) ==
    /\ SetModel(Model_remove(Cur, e, t))
    /\ lastOp' = Op("remove", e, t, DefaultValue, NoSystem, {},
                    getAccess_(Cur, e, t), {}, NoOp)

\* access<T>(e) = v: a write through the reference access<T>(e) returns.
DoWrite(e, t, v) ==
    /\ components_' = [components_ EXCEPT
                          ![t].data_[getAccess_(Cur, e, t) + 1] = v]
    /\ UNCHANGED <<accessMatrix_, spawnedEntities_, systems_, systemOrder>>
    /\ lastOp' = Op("write", e, t, v, NoSystem, {}, getAccess_(Cur, e, t),
                    {}, NoOp)

DoCreateSystem(hSys, pos, Us) ==
    /\ SetModel(Model_createSystem(Cur, hSys, pos, Us))
    /\ lastOp' = Op("createSystem", NoEntity, 0, DefaultValue, hSys, Us, 0,
                    {}, NoOp)

DoRemoveSystem(hSys) ==
    /\ SetModel(Model_removeSystem(Cur, hSys))
    /\ lastOp' = Op("removeSystem", NoEntity, 0, DefaultValue, hSys, {}, 0,
                    {}, NoOp)

\* The call f_(entities_, m) of the system h by the loop of process().
DoCall(h) ==
    /\ UNCHANGED <<accessMatrix_, spawnedEntities_, components_, systems_,
                   systemOrder>>
    /\ processing' = [processing EXCEPT !.it = h, !.visited = @ \cup {h}]
    /\ lastOp' = Op("call", NoEntity, 0, DefaultValue, h, {}, 0,
                    System_process(systems_[h]), NoOp)

\* The loop of process() is over: process() returns.
DoProcessEnd ==
    /\ UNCHANGED <<accessMatrix_, spawnedEntities_, components_, systems_,
                   systemOrder>>
    /\ processing' = NotProcessing
    /\ lastOp' = [Op("process", NoEntity, 0, DefaultValue, NoSystem, {}, 0, {},
                     NoOp) EXCEPT !.visited = processing.visited]

\* process() is called: the loop is entered, and either there is no system
\* and process() returns, or the function of the first system is called.
DoProcessBegin ==
    LET h == Model_process_begin(Cur)
    IN  IF h = NoSystem THEN DoProcessEnd ELSE DoCall(h)

\* The function running returns: the loop goes to the next system and calls
\* its function, or is over and process() returns.
DoProcessReturn ==
    LET h == Model_process_next(Cur, processing.it)
    IN  IF h = NoSystem THEN DoProcessEnd ELSE DoCall(h)

\* createSystem and removeSystem called by a processing function are noted in
\* the history of the call of process() in progress, which speaks no more of
\* the systems removed.
RegistryCalled(removed) ==
    processing' = IF processing.it = NoSystem THEN processing
                  ELSE [processing EXCEPT !.stable = FALSE,
                                          !.visited = @ \ removed]

\* The operations take their inputs under the caller contract: only spawned
\* entities, insert<T> only on an entity not owning T, remove<T> and access<T>
\* only on an entity owning T, removeSystem only on a registered system.  A
\* processing function does not call process() and does not remove the system
\* it belongs to (the std::function running and the iterator of the loop
\* would be destroyed under it).

CreateEntity(maxEntities) ==
    /\ Cardinality(spawnedEntities_) < maxEntities
    /\ DoCreateEntity
    /\ UNCHANGED <<processing, scenario>>

RemoveEntity ==
    \E e \in spawnedEntities_ :
        /\ DoRemoveEntity(e)
        /\ UNCHANGED <<processing, scenario>>

Insert(vals, maxStored) ==
    \E e \in spawnedEntities_, t \in Types, v \in vals :
        /\ ~Owns(e, t)
        /\ StoredFrom(Cur, 0) < maxStored
        /\ DoInsert(e, t, v)
        /\ UNCHANGED <<processing, scenario>>

Remove ==
    \E e \in spawnedEntities_, t \in Types :
        /\ Owns(e, t)
        /\ DoRemove(e, t)
        /\ UNCHANGED <<processing, scenario>>

AccessWrite ==
    \E e \in spawnedEntities_, t \in Types, v \in Values :
        /\ Owns(e, t)
        /\ DoWrite(e, t, v)
        /\ UNCHANGED <<processing, scenario>>

\* insert<T>(e, v) against the caller contract: e already owns T.
InsertAgain ==
    \E e \in spawnedEntities_, t \in Types, v \in Values :
        /\ Owns(e, t)
        /\ StoredFrom(Cur, 0) < MaxStored
        /\ DoInsert(e, t, v)
        /\ UNCHANGED <<processing, scenario>>

CreateSystem ==
    \E Us \in SUBSET Types, hSys \in SystemHandles \ DOMAIN systems_,
       pos \in 1 .. (Len(systemOrder) + 1) :
        /\ Cardinality(DOMAIN systems_) < MaxSystems
        /\ DoCreateSystem(hSys, pos, Us)
        /\ RegistryCalled({})
        /\ UNCHANGED scenario

RemoveSystem ==
    \E hSys \in DOMAIN systems_ \ {processing.it} :
        /\ DoRemoveSystem(hSys)
        /\ RegistryCalled({hSys})
        /\ UNCHANGED scenario

ProcessBegin ==
    /\ processing.it = NoSystem
    /\ DoProcessBegin
    /\ UNCHANGED scenario

ProcessReturn ==
    /\ processing.it # NoSystem
    /\ DoProcessReturn
    /\ UNCHANGED scenario

\* The operations on entities, components and systems.  The entities are those
\* of one block of the access matrix and the components hold T{} (insert's
\* default argument).
Next ==
    \/ CreateEntity(N)
    \/ RemoveEntity
    \/ Insert({DefaultValue}, N * M)
    \/ Remove
    \/ CreateSystem
    \/ RemoveSystem

Spec == Init /\ [][Next]_vars

\* The operations on entities and systems, with process(): the operations are
\* called by the caller between two calls of process() and by the processing
\* functions during a call of process().  The entities own no component.
ProcessNext ==
    \/ CreateEntity(MaxProcessed)
    \/ RemoveEntity
    \/ CreateSystem
    \/ RemoveSystem
    \/ ProcessBegin
    \/ ProcessReturn

ProcessSpec == Init /\ [][ProcessNext]_vars

\* The operations on entities and components with every value, over more than
\* one block of the access matrix, no system being registered.
StoreNext ==
    \/ CreateEntity(MaxStored)
    \/ RemoveEntity
    \/ Insert(Values, MaxStored)
    \/ Remove
    \/ AccessWrite

StoreSpec == Init /\ [][StoreNext]_vars

\* createEntity() by a caller that records every entity it was handed.
CreateEntityRecorded ==
    /\ Cardinality(spawnedEntities_) < MaxStored
    /\ DoCreateEntity
    /\ scenario' = [scenario EXCEPT !.made = @ \cup {Model_createEntity(Cur).e}]
    /\ UNCHANGED processing

\* The operations on entities and components, the caller recording the
\* entities it was handed; the components hold T{}.
AllocNext ==
    \/ CreateEntityRecorded
    \/ RemoveEntity
    \/ Insert({DefaultValue}, MaxStored)
    \/ Remove

AllocSpec == Init /\ [][AllocNext]_vars

\* The operations on entities and components by a caller that also calls
\* insert<T> on entities already owning T.
MisuseNext ==
    \/ CreateEntity(N)
    \/ RemoveEntity
    \/ Insert(Values, MaxStored)
    \/ InsertAgain
    \/ Remove

MisuseSpec == Init /\ [][MisuseNext]_vars

\* The caller of the end-to-end scenario: create e1, e2, e3; insert<Position>
\* (e1, p1); insert<Position>(e2, p2); createSystem<Position>(fn); process();
\* remove<Position>(e1); removeEntity(e2); process().  Position is any declared
\* type, p1 and p2 any values, and the System is allocated at any address.
ScenarioStep ==
    \/ /\ scenario.pc \in {0, 1, 2}
       /\ DoCreateEntity
       /\ scenario' = [scenario EXCEPT
              !.pc = @ + 1, !.es = Append(@, Model_createEntity(Cur).e)]
       /\ UNCHANGED processing
    \/ /\ scenario.pc = 3
       /\ \E t \in Types, p1 \in Values :
              /\ DoInsert(scenario.es[1], t, p1)
              /\ scenario' = [scenario EXCEPT !.pc = 4, !.t = t]
       /\ UNCHANGED processing
    \/ /\ scenario.pc = 4
       /\ \E p2 \in Values : DoInsert(scenario.es[2], scenario.t, p2)
       /\ scenario' = [scenario EXCEPT !.pc = 5]
       /\ UNCHANGED processing
    \/ /\ scenario.pc = 5
       /\ \E hSys \in SystemHandles :
              /\ DoCreateSystem(hSys, 1, {scenario.t})
              /\ scenario' = [scenario EXCEPT !.pc = 6, !.h = hSys]
       /\ UNCHANGED processing
    \/ /\ scenario.pc \in {6, 9}
       /\ processing.it = NoSystem
       /\ DoProcessBegin
       /\ scenario' = IF Model_process_begin(Cur) = NoSystem
                      THEN [scenario EXCEPT !.pc = @ + 1] ELSE scenario
    \/ /\ scenario.pc \in {6, 9}
       /\ processing.it # NoSystem
       /\ DoProcessReturn
       /\ scenario' = IF Model_process_next(Cur, processing.it) = NoSystem
                      THEN [scenario EXCEPT !.pc = @ + 1] ELSE scenario
    \/ /\ scenario.pc = 7
       /\ DoRemove(scenario.es[1], scenario.t)
       /\ scenario' = [scenario EXCEPT !.pc = 8]
       /\ UNCHANGED processing
    \/ /\ scenario.pc = 8
       /\ DoRemoveEntity(scenario.es[2])
       /\ scenario' = [scenario EXCEPT !.pc = 9]
       /\ UNCHANGED processing

\* Between the steps of the scenario the caller, and during process() the
\* function fn, may overwrite the values of the components through access<T>.
ScenarioWrite ==
    \E e \in spawnedEntities_, t \in Types, v \in Values :
        /\ scenario.pc < 10
        /\ Owns(e, t)
        /\ DoWrite(e, t, v)
        /\ UNCHANGED <<processing, scenario>>

ScenarioNext == ScenarioStep \/ ScenarioWrite

ScenarioSpec == Init /\ [][ScenarioNext]_vars

----------------------------------------------------------------------------
(* What the claims speak of. *)

\* signature(e), derived from the accessors of e's slot.
Signature(e) == computeSignature_(Cur, e)

\* The spawned entities of m whose signature is a superset of S.
MatchingIn(m, S) == {e \in m.spawnedEntities_ : S \subseteq computeSignature_(m, e)}
Matching(S) == MatchingIn(Cur, S)

WorkingSet(h) == systems_[h].entities_

\* The registered system g comes before the registered system h in the order
\* of the registry.
Before(g, h) == PlaceOf(systemOrder, g) < PlaceOf(systemOrder, h)

\* The slots of all the blocks allocated so far.
Slots == 0 .. (Len(accessMatrix_.data_) * N - 1)

\* The entities with an entry in the store of type t.
Owners(t) == Range(components_[t].owners_)

\* access<T>(e)
Access(e, t) == Model_access(Cur, e, t)

----------------------------------------------------------------------------
(* System membership *)

\* C1: at every point between operations, the working set of every registered
\* system with signature S is exactly the set of the spawned entities whose
\* signature is a superset of S.
C1_MembershipInvariant ==
    \A h \in DOMAIN systems_ :
        WorkingSet(h) = Matching(systems_[h].signature_)

\* C2: when remove<T>(e) has returned, e is in the working set of no
\* registered system whose signature includes T.
C2_RemoveUnregisters ==
    lastOp.op = "remove" =>
        \A h \in DOMAIN systems_ :
            lastOp.t \in systems_[h].signature_ => lastOp.e \notin WorkingSet(h)

\* C3: when removeEntity(e) has returned, e is not spawned, e's slot is
\* all-absent and on the free list, no component store has an entry owned by
\* e, and e is in the working set of no registered system.
C3_RemoveEntityClears ==
    lastOp.op = "removeEntity" =>
        LET e == lastOp.e
        IN  /\ e \notin spawnedEntities_
            /\ \A t \in Types : ~Owns(e, t)
            /\ e \in Range(accessMatrix_.available_)
            /\ \A t \in Types : e \notin Owners(t)
            /\ \A h \in DOMAIN systems_ : e \notin WorkingSet(h)

\* The parts of C3 that do not speak of the systems.
C3_SlotAndStoresCleared ==
    lastOp.op = "removeEntity" =>
        LET e == lastOp.e
        IN  /\ e \notin spawnedEntities_
            /\ \A t \in Types : ~Owns(e, t)
            /\ e \in Range(accessMatrix_.available_)
            /\ \A t \in Types : e \notin Owners(t)

\* C4: when createSystem<Us...>(f) has returned, the new system's signature is
\* the set of the bits of Us, its working set is exactly the set of the spawned
\* entities whose signature is a superset of it (so no destroyed entity is in
\* it), and the systems registered before are unchanged and in the order they
\* were in.
C4_CreateSystemSeeds ==
    [][lastOp'.op = "createSystem" =>
          LET h == lastOp'.h
          IN  /\ DOMAIN systems_' = DOMAIN systems_ \cup {h}
              /\ h \notin DOMAIN systems_
              /\ systems_'[h].signature_ = lastOp'.sig
              /\ systems_'[h].entities_ = MatchingIn(Cur', lastOp'.sig)
              /\ systems_'[h].entities_ \subseteq spawnedEntities_'
              /\ \A g \in DOMAIN systems_ : systems_'[g] = systems_[g]
              /\ Without(systemOrder', h) = systemOrder]_vars

\* A system requiring a type has just been created beside another system; an
\* entity owning the type was seeded, and the slot handed out before that
\* entity's, destroyed since, was not.
C4_Witness ==
    /\ lastOp.op = "createSystem"
    /\ lastOp.sig # {}
    /\ Cardinality(DOMAIN systems_) = 2
    /\ \E e \in WorkingSet(lastOp.h), d \in Slots \ spawnedEntities_ :
           /\ BlockOf(d) = BlockOf(e)
           /\ d < e

----------------------------------------------------------------------------
(* Component stores and slots *)

\* C5: for every type T, (a) the accessor for T of a slot is absent iff the
\* slot's entity has no entry in the store of T; (b) the accessors of the
\* owners are pairwise distinct and are exactly the offsets 0 .. size - 1;
\* (c) owners_[a] is the entity whose accessor for T is a.  No accessor
\* points at or past the end of its store.
C5_StoreSlotConsistency ==
    \A t \in Types :
        LET c == components_[t]
            size == Len(c.owners_)
        IN  /\ Len(c.data_) = size
            /\ Owners(t) \subseteq spawnedEntities_
            /\ \A e \in Slots : (~Owns(e, t)) <=> (e \notin Owners(t))
            /\ Cardinality(Owners(t)) = size
            /\ {getAccess_(Cur, e, t) : e \in Owners(t)} = 0 .. (size - 1)
            /\ \A a \in 0 .. (size - 1) : getAccess_(Cur, c.owners_[a + 1], t) = a
            /\ \A e \in Slots : Owns(e, t) => getAccess_(Cur, e, t) < size

\* A remove<T> has vacated an offset that was not the last one of a store of
\* three entries, so that an owner was relocated.
C5_Witness ==
    /\ lastOp.op = "remove"
    /\ Len(components_[lastOp.t].owners_) = 2
    /\ lastOp.a = 0

\* C6: remove<T>(e) leaves every other owner e2 of T owning T, and access<T>(e2)
\* returning the value it returned before.
C6_SwapRemoveKeepsValues ==
    [][lastOp'.op = "remove" =>
          \A e2 \in spawnedEntities_ \ {lastOp'.e} :
              Owns(e2, lastOp'.t) =>
                  /\ hasAccess_(Cur', e2, lastOp'.t)
                  /\ Model_access(Cur', e2, lastOp'.t) = Access(e2, lastOp'.t)]_vars

\* remove<T> has vacated the middle offset of a store of three entries, and the
\* relocated value differs from the value at the first offset.
C6_Witness ==
    /\ lastOp.op = "remove"
    /\ lastOp.a = 1
    /\ Len(components_[lastOp.t].owners_) = 2
    /\ components_[lastOp.t].data_[1] # components_[lastOp.t].data_[2]

\* C7: when insert<T>(e, v) has returned, access<T>(e) returns v; and an
\* operation that neither removes T from e nor writes through access<T>(e)
\* leaves the value access<T>(e) returns unchanged.
C7_InsertAccessRoundTrip ==
    [][/\ lastOp'.op = "insert" =>
              /\ hasAccess_(Cur', lastOp'.e, lastOp'.t)
              /\ Model_access(Cur', lastOp'.e, lastOp'.t) = lastOp'.v
       /\ \A e \in spawnedEntities_, t \in Types :
              (/\ Owns(e, t)
               /\ ~(lastOp'.op = "remove" /\ lastOp'.e = e /\ lastOp'.t = t)
               /\ ~(lastOp'.op = "removeEntity" /\ lastOp'.e = e)
               /\ ~(lastOp'.op = "write" /\ lastOp'.e = e /\ lastOp'.t = t))
              => (/\ hasAccess_(Cur', e, t)
                  /\ Model_access(Cur', e, t) = Access(e, t))]_vars

\* insert<T>(e, v) has stored a value other than T{} behind other entries.
C7_Witness ==
    /\ lastOp.op = "insert"
    /\ lastOp.v # DefaultValue
    /\ lastOp.a > 0
    /\ Access(lastOp.e, lastOp.t) = lastOp.v

\* C8: insert<T>(e, _) adds bit T to signature(e) and remove<T>(e) takes bit T
\* out of it; no other bit of signature(e) changes.
C8_SignatureBit ==
    [][/\ lastOp'.op = "insert" =>
              /\ lastOp'.t \notin Signature(lastOp'.e)
              /\ computeSignature_(Cur', lastOp'.e)
                     = Signature(lastOp'.e) \cup {lastOp'.t}
       /\ lastOp'.op = "remove" =>
              /\ lastOp'.t \in Signature(lastOp'.e)
              /\ computeSignature_(Cur', lastOp'.e)
                     = Signature(lastOp'.e) \ {lastOp'.t}]_vars

\* remove<T>(e) has returned for an entity that keeps another component.
C8_Witness ==
    /\ lastOp.op = "remove"
    /\ Signature(lastOp.e) # {}
    /\ lastOp.t \notin Signature(lastOp.e)

\* C9: the entity createEntity() returns reports absent for every declared
\* component type, whether its slot is recycled or comes from a new block.
C9_NewEntityAbsent ==
    lastOp.op = "createEntity" =>
        /\ lastOp.e \in spawnedEntities_
        /\ Signature(lastOp.e) = {}
        /\ \A t \in Types : lastOp.e \notin Owners(t)

\* createEntity() has returned the slot of the entity that removeEntity
\* destroyed just before, which owned every declared type.
C9_Witness ==
    /\ lastOp.op = "createEntity"
    /\ lastOp.after = <<"removeEntity", lastOp.e, Types>>

----------------------------------------------------------------------------
(* The end-to-end scenario *)

ScenarioE(i) == scenario.es[i]

\* C10: in the end-to-end scenario, createSystem<Position> gives the working
\* set {e1, e2}; process() calls fn with {e1, e2}; remove<Position>(e1) makes
\* the working set {e2}; removeEntity(e2) makes it {}; the final process()
\* calls fn with the empty set.
C10_Scenario ==
    /\ scenario.pc \in {6, 7} =>
           WorkingSet(scenario.h) = {ScenarioE(1), ScenarioE(2)}
    /\ (scenario.pc = 6 /\ lastOp.op = "call") =>
           /\ lastOp.h = scenario.h
           /\ lastOp.entities = {ScenarioE(1), ScenarioE(2)}
    /\ (scenario.pc = 6 /\ processing.it # NoSystem) =>
           processing.visited = {scenario.h}
    /\ (scenario.pc = 7 /\ lastOp.op = "process") =>
           lastOp.visited = {scenario.h}
    /\ scenario.pc = 8 => WorkingSet(scenario.h) = {ScenarioE(2)}
    /\ scenario.pc \in {9, 10} => WorkingSet(scenario.h) = {}
    /\ (scenario.pc = 9 /\ lastOp.op = "call") =>
           /\ lastOp.h = scenario.h
           /\ lastOp.entities = {}
    /\ (scenario.pc = 9 /\ processing.it # NoSystem) =>
           processing.visited = {scenario.h}
    /\ (scenario.pc = 10 /\ lastOp.op = "process") =>
           lastOp.visited = {scenario.h}

\* The scenario has run to its end: the final process() has called fn.
C10_Witness ==
    /\ scenario.pc = 10
    /\ lastOp.op = "process"
    /\ lastOp.visited = {scenario.h}
    /\ Cardinality({ScenarioE(1), ScenarioE(2), ScenarioE(3)}) = 3
    /\ spawnedEntities_ = {ScenarioE(1), ScenarioE(3)}

----------------------------------------------------------------------------
(* Processing *)

\* C11: process() calls the function of a system only while the system is
\* registered, with the working set the system has at the call, and after the
\* functions of systems that come before it in the order of the registry only,
\* so that no function is called twice and the order of the visits is the
\* order of the registry, which no operation but createSystem and
\* removeSystem changes: two calls of process() with neither between them
\* visit the systems in the same order.  process() changes nothing itself.
\* When it returns, it has called the function of every registered system,
\* provided no processing function has called createSystem or removeSystem
\* during the call.
C11_ProcessCallsEverySystem ==
    [][/\ (lastOp'.op = "call" /\ processing' # processing) =>
              LET h == lastOp'.h
              IN  /\ h \in DOMAIN systems_
                  /\ processing'.it = h
                  /\ lastOp'.entities = systems_[h].entities_
                  /\ h \notin processing.visited
                  /\ \A g \in processing.visited : Before(g, h)
                  /\ processing'.visited = processing.visited \cup {h}
                  /\ processing.stable =>
                         processing.visited =
                             {g \in DOMAIN systems_ : Before(g, h)}
                  /\ Cur' = Cur
       /\ (lastOp'.op = "process" /\ lastOp' # lastOp) =>
              /\ processing'.it = NoSystem
              /\ lastOp'.visited = processing.visited
              /\ processing.stable => lastOp'.visited = DOMAIN systems_
              /\ Cur' = Cur
       /\ (processing.it # NoSystem /\ lastOp'.op \notin {"call", "process"}) =>
              /\ processing'.it = processing.it
              /\ processing'.visited = processing.visited \cap DOMAIN systems_'
       /\ lastOp'.op \notin {"createSystem", "removeSystem"} =>
              systemOrder' = systemOrder]_vars

\* process() has returned after it called the functions of the two systems
\* registered, whose working sets differ.
C11_Witness ==
    /\ lastOp.op = "process"
    /\ lastOp.visited = DOMAIN systems_
    /\ Cardinality(lastOp.visited) = 2
    /\ \E g, h \in lastOp.visited : WorkingSet(g) # WorkingSet(h)

----------------------------------------------------------------------------
(* Registration by insert and createEntity *)

\* C12: insert<T>(e, v) leaves the set of registered systems and their
\* signatures as they were, and the working set of each system is the one of
\* before, with e added iff the system's signature is a subset of the new
\* signature of e: e is in every system its new signature satisfies, a system
\* that held e already is unchanged, e is added to no other system, and no
\* other entity's membership changes.
C12_InsertRegisters ==
    [][lastOp'.op = "insert" =>
          LET e == lastOp'.e
              s == computeSignature_(Cur', e)
          IN  /\ DOMAIN systems_' = DOMAIN systems_
              /\ \A h \in DOMAIN systems_ :
                     /\ systems_'[h].signature_ = systems_[h].signature_
                     /\ systems_'[h].entities_ =
                            IF systems_[h].signature_ \subseteq s
                            THEN systems_[h].entities_ \cup {e}
                            ELSE systems_[h].entities_]_vars

\* insert<T>(e, v) has completed the signature of e: a system requiring both
\* types holds e, and so does a system that held e before the call.
C12_Witness ==
    /\ lastOp.op = "insert"
    /\ Signature(lastOp.e) = Types
    /\ \E h, g \in DOMAIN systems_ :
           /\ systems_[h].signature_ = Types
           /\ systems_[g].signature_ = Types \ {lastOp.t}
           /\ lastOp.e \in WorkingSet(h)
           /\ lastOp.e \in WorkingSet(g)
           /\ WorkingSet(h) # spawnedEntities_

\* C13: createEntity() takes a slot that no spawned entity holds, adds the
\* entity it returns to the spawned set, and adds it to the working set of
\* every registered system whose signature is empty; nothing else changes in
\* the spawned set or in the working sets.
C13_CreateEntityRegisters ==
    [][lastOp'.op = "createEntity" =>
          LET e == lastOp'.e
          IN  /\ e \notin spawnedEntities_
              /\ e \notin Range(accessMatrix_'.available_)
              /\ spawnedEntities_' = spawnedEntities_ \cup {e}
              /\ DOMAIN systems_' = DOMAIN systems_
              /\ \A h \in DOMAIN systems_ :
                     /\ systems_'[h].signature_ = systems_[h].signature_
                     /\ systems_'[h].entities_ =
                            IF systems_[h].signature_ = {}
                            THEN systems_[h].entities_ \cup {e}
                            ELSE systems_[h].entities_]_vars

\* createEntity() has returned an entity beside a system with the empty
\* signature, which holds it, and a system requiring a type, which does not.
C13_Witness ==
    /\ lastOp.op = "createEntity"
    /\ \E h, g \in DOMAIN systems_ :
           /\ systems_[h].signature_ = {}
           /\ systems_[g].signature_ # {}
           /\ lastOp.e \in WorkingSet(h)
           /\ lastOp.e \notin WorkingSet(g)

----------------------------------------------------------------------------
(* removeSystem *)

\* C14: removeSystem(h) takes exactly h out of the registered systems and
\* leaves the other systems (signatures and working sets), the spawned set,
\* the slots and the stores as they were; a handle that is not registered gets
\* no working set back from any operation but a createSystem that returns it,
\* and process() calls the function of no unregistered handle.
C14_RemoveSystemFrame ==
    [][/\ lastOp'.op = "removeSystem" =>
              /\ lastOp'.h \in DOMAIN systems_
              /\ DOMAIN systems_' = DOMAIN systems_ \ {lastOp'.h}
              /\ \A g \in DOMAIN systems_' : systems_'[g] = systems_[g]
              /\ systemOrder' = Without(systemOrder, lastOp'.h)
              /\ accessMatrix_' = accessMatrix_
              /\ spawnedEntities_' = spawnedEntities_
              /\ components_' = components_
       /\ lastOp'.op # "createSystem" => DOMAIN systems_' \subseteq DOMAIN systems_
       /\ lastOp'.op = "createSystem" =>
              DOMAIN systems_' \subseteq DOMAIN systems_ \cup {lastOp'.h}
       /\ lastOp'.op = "call" => lastOp'.h \in DOMAIN systems_'
       /\ processing'.it # NoSystem => processing'.it \in DOMAIN systems_']_vars

\* removeSystem(h) has returned and another system, with a working set that
\* is not empty, is still registered.
C14_Witness ==
    /\ lastOp.op = "removeSystem"
    /\ lastOp.h \notin DOMAIN systems_
    /\ \E g \in DOMAIN systems_ : WorkingSet(g) # {}

----------------------------------------------------------------------------
(* Membership after remove and after slot reuse *)

\* C15: remove<T>(e) leaves e in the working set of every system that held e,
\* does not require T and is satisfied by the remaining components of e (so
\* every system with the empty signature keeps e), and it neither adds any
\* other entity to a working set nor removes one.
C15_RemoveKeepsOtherMembership ==
    [][lastOp'.op = "remove" =>
          LET e == lastOp'.e
              t == lastOp'.t
          IN  \A h \in DOMAIN systems_ :
                  /\ h \in DOMAIN systems_'
                  /\ (/\ t \notin systems_[h].signature_
                      /\ systems_[h].signature_ \subseteq computeSignature_(Cur', e)
                      /\ e \in systems_[h].entities_)
                     => e \in systems_'[h].entities_
                  /\ systems_'[h].entities_ \ {e} = systems_[h].entities_ \ {e}]_vars

\* The part of C15 about the other entities: remove<T>(e) changes the
\* membership of no entity but e.
C15_RemoveLeavesOthers ==
    [][lastOp'.op = "remove" =>
          \A h \in DOMAIN systems_ :
              /\ h \in DOMAIN systems_'
              /\ systems_'[h].entities_ \ {lastOp'.e}
                     = systems_[h].entities_ \ {lastOp'.e}]_vars

\* C16: the entity createEntity() has just returned is in the working set of
\* no registered system with a signature that is not empty.
C16_NewEntityInNoTypedSystem ==
    lastOp.op = "createEntity" =>
        \A h \in DOMAIN systems_ :
            systems_[h].signature_ # {} => lastOp.e \notin WorkingSet(h)

----------------------------------------------------------------------------
(* The slot allocator and the frame of removeEntity *)

\* The number of slabs (blocks) and the slots they hold, in the model m.
SlabCount(m) == Len(m.accessMatrix_.data_)
SlotsOf(m) == 0 .. (SlabCount(m) * N - 1)
FreeSlots(m) == Range(m.accessMatrix_.available_)

\* C17: under the caller contract, createEntity() never returns a slot that is
\* spawned; after every operation the free list holds no slot twice and the
\* free list and the spawned entities partition the slots of all slabs; the
\* number of slabs never decreases, and it grows, by one slab, only in a
\* createEntity() called with the free list empty.
C17_SlotExclusivity ==
    [][/\ FreeSlots(Cur') \cap spawnedEntities_' = {}
       /\ FreeSlots(Cur') \cup spawnedEntities_' = SlotsOf(Cur')
       /\ Cardinality(FreeSlots(Cur')) = Len(accessMatrix_'.available_)
       /\ lastOp'.op = "createEntity" =>
              /\ lastOp'.e \notin spawnedEntities_
              /\ spawnedEntities_' = spawnedEntities_ \cup {lastOp'.e}
       /\ SlabCount(Cur') >= SlabCount(Cur)
       /\ SlabCount(Cur') # SlabCount(Cur) =>
              /\ lastOp'.op = "createEntity"
              /\ accessMatrix_.available_ = <<>>
              /\ SlabCount(Cur') = SlabCount(Cur) + 1
       /\ (lastOp'.op = "createEntity" /\ accessMatrix_.available_ # <<>>) =>
              SlabCount(Cur') = SlabCount(Cur)]_vars

\* The (N+1)-th createEntity() with no entity destroyed in between: it returned
\* the first slot of the second slab.
C17_Witness ==
    /\ lastOp.op = "createEntity"
    /\ lastOp.e = N
    /\ SlabCount(Cur) = 2
    /\ spawnedEntities_ = 0 .. N
    /\ Len(accessMatrix_.available_) = N - 1

\* C18: removeEntity(e) leaves every other spawned entity spawned, owning the
\* types it owned and no other, with access<T> returning the value it returned
\* before; the store of each type e owned holds one value less and the store
\* of each type e did not own holds as many values as before.
C18_RemoveEntityFrame ==
    [][lastOp'.op = "removeEntity" =>
          LET e == lastOp'.e
          IN  /\ spawnedEntities_' = spawnedEntities_ \ {e}
              /\ \A o \in spawnedEntities_ \ {e}, t \in Types :
                     /\ hasAccess_(Cur', o, t) <=> hasAccess_(Cur, o, t)
                     /\ hasAccess_(Cur, o, t) =>
                            Model_access(Cur', o, t) = Model_access(Cur, o, t)
              /\ \A t \in Types :
                     /\ Len(components_'[t].data_) =
                            Len(components_[t].data_)
                                - (IF hasAccess_(Cur, e, t) THEN 1 ELSE 0)
                     /\ Len(components_'[t].owners_) = Len(components_'[t].data_)]_vars

\* removeEntity(e) of an entity that owned every type, while another spawned
\* entity owns a component.
C18_Witness ==
    /\ lastOp.op = "removeEntity"
    /\ lastOp.sig = Types
    /\ \E o \in spawnedEntities_ : Signature(o) # {}

----------------------------------------------------------------------------
(* Slot recycling *)

\* C19: the free list is a stack.  removeEntity(e) puts e on top of it, a
\* createEntity() called with the free list not empty takes the top, and no
\* other operation changes it; so the createEntity() that comes right after
\* removeEntity(e) returns e.  A createEntity() that returns a slot never
\* handed out before is called with no recycled slot in the free list.
C19_RecyclingIsLifo ==
    [][/\ lastOp'.op = "removeEntity" =>
              /\ accessMatrix_'.available_ # <<>>
              /\ Back(accessMatrix_'.available_) = lastOp'.e
              /\ PopBack(accessMatrix_'.available_) = accessMatrix_.available_
       /\ (lastOp'.op = "createEntity" /\ accessMatrix_.available_ # <<>>) =>
              /\ lastOp'.e = Back(accessMatrix_.available_)
              /\ accessMatrix_'.available_ = PopBack(accessMatrix_.available_)
       /\ lastOp'.op \notin {"createEntity", "removeEntity"} =>
              accessMatrix_'.available_ = accessMatrix_.available_
       /\ (lastOp.op = "removeEntity" /\ lastOp'.op = "createEntity") =>
              lastOp'.e = lastOp.e
       /\ (lastOp'.op = "createEntity" /\ lastOp'.e \notin scenario.made) =>
              FreeSlots(Cur) \cap scenario.made = {}]_vars

\* createEntity() right after removeEntity(e) returned e again while a slot
\* never handed out was in the free list.
C19_Witness ==
    /\ lastOp.op = "createEntity"
    /\ lastOp.after[1] = "removeEntity"
    /\ lastOp.after[2] = lastOp.e
    /\ FreeSlots(Cur) \ scenario.made # {}
    /\ lastOp.e \in scenario.made

----------------------------------------------------------------------------
(* insert<T> on an entity that already owns T *)

\* The number of entries of the store of type t whose owner is e.
OwnedCount(m, e, t) ==
    Cardinality({i \in 1 .. Len(m.components_[t].owners_) :
                     m.components_[t].owners_[i] = e})

\* C20: insert<T>(e, v2) on an entity e that already owns T returns like any
\* insert: the store of T holds one entry more, the accessor of e is the offset
\* of the new entry and access<T>(e) returns v2, and the earlier entry stays
\* in the store, unchanged and with owner e, at an offset that is no longer the
\* accessor of e.  removeEntity(e) removes one entry of e per type e owns, so
\* an orphaned entry is still in the store after it.
C20_InsertAgainCorrupts ==
    [][/\ (lastOp'.op = "insert" /\ hasAccess_(Cur, lastOp'.e, lastOp'.t)) =>
              LET e == lastOp'.e
                  t == lastOp'.t
                  old == getAccess_(Cur, e, t)
                  len == Len(components_[t].data_)
              IN  /\ lastOp'.a = len
                  /\ Len(components_'[t].data_) = len + 1
                  /\ Len(components_'[t].owners_) = len + 1
                  /\ getAccess_(Cur', e, t) = len
                  /\ getAccess_(Cur', e, t) # old
                  /\ Model_access(Cur', e, t) = lastOp'.v
                  /\ old < len
                  /\ components_'[t].owners_[old + 1] = e
                  /\ components_'[t].data_[old + 1] = components_[t].data_[old + 1]
                  /\ OwnedCount(Cur', e, t) >= 2
                  /\ spawnedEntities_' = spawnedEntities_
       /\ lastOp'.op = "removeEntity" =>
              \A t \in Types :
                  OwnedCount(Cur', lastOp'.e, t) =
                      OwnedCount(Cur, lastOp'.e, t)
                          - (IF hasAccess_(Cur, lastOp'.e, t) THEN 1 ELSE 0)]_vars

\* removeEntity(e) has returned and a store still holds an entry with owner e.
C20_Witness ==
    /\ lastOp.op = "removeEntity"
    /\ lastOp.e \notin spawnedEntities_
    /\ \E t \in Types : OwnedCount(Cur, lastOp.e, t) >= 1

====
